---- MODULE Spec2Model ----
(***************************************************************************)
(* Version conversion of NGFF multiscale metadata records (ngff-zarr).     *)
(*                                                                         *)
(*   py/ngff_zarr/_supported_versions.py   SUPPORTED_VERSIONS,             *)
(*                                         VERSION_ALIASES                 *)
(*   py/ngff_zarr/v05/zarr_metadata.py     the 0.5 Metadata dataclass, its *)
(*                                         converters and dimension_names  *)
(*                                                                         *)
(* Python objects live in a heap: a record object's list-valued fields     *)
(* hold references into heap.lists, so that two records built from the     *)
(* same field values share the lists, as they do in Python.                *)
(***************************************************************************)
EXTENDS Naturals, Sequences, FiniteSets, TLC

VARIABLES
    heap,      \* [objs: the Metadata objects, lists: the list objects]
    call,      \* the last operation: [op, self, arg]
    result,    \* what the last operation returned or raised
    pre        \* the heap before the last operation

vars == <<heap, call, result, pre>>

-----------------------------------------------------------------------------
(* Bounds of the model *)

\* At most this many Metadata objects are allocated.
MaxObjects == 3

-----------------------------------------------------------------------------
(* Python values *)

\* None, where a string or an object is expected.
None == "None"
\* None, where a reference to a list is expected (references start at 1).
NoList == 0

Range(s) == {s[i] : i \in DOMAIN s}

\* The sequences without repetition over S
Injective(S) ==
    {s \in UNION {[1..k -> S] : k \in 0..Cardinality(S)} :
        \A i, j \in DOMAIN s : s[i] = s[j] => i = j}

\* What an operation does: returns an object, returns None, returns a plain
\* value, or raises.
ReturnObject(ref) ==
    [kind |-> "object", ref |-> ref, value |-> <<>>, exc |-> None, msg |-> ""]
ReturnNone ==
    [kind |-> "None", ref |-> 0, value |-> <<>>, exc |-> None, msg |-> ""]
ReturnValue(v) ==
    [kind |-> "value", ref |-> 0, value |-> v, exc |-> None, msg |-> ""]
Raise(exc, msg) ==
    [kind |-> "raise", ref |-> 0, value |-> <<>>, exc |-> exc, msg |-> msg]

-----------------------------------------------------------------------------
(* _supported_versions.py *)

SUPPORTED_VERSIONS == <<"0.4", "0.5", "0.6">>

\* Variant: "latest" left at the previous newest version.
VERSION_ALIASES_stale ==
    ("0.4" :> "0.4") @@ ("0.5" :> "0.5") @@ ("0.6" :> "0.6") @@ ("latest" :> "0.5")

VERSION_ALIASES ==
    ("0.4" :> "0.4") @@ ("0.5" :> "0.5") @@ ("0.6" :> "0.6") @@ ("latest" :> "0.6")

\* VERSION_ALIASES[version]: a dict subscript raises KeyError on a missing key.
getitem(d, key) ==
    IF key \in DOMAIN d THEN ReturnValue(d[key]) ELSE Raise("KeyError", key)

-----------------------------------------------------------------------------
(* v05/zarr_metadata.py *)

\* The 0.5 dataclass: its generated constructor stores the seven fields.
Metadata(axes, datasets, coordinateTransformations, omero, name, type, metadata) ==
    [cls |-> "Metadata",
     axes |-> axes,
     datasets |-> datasets,
     coordinateTransformations |-> coordinateTransformations,
     omero |-> omero,
     name |-> name,
     type |-> type,
     metadata |-> metadata]

\* The 0.4 record type (v04/zarr_metadata.py): the same seven fields.
Metadata_v04(axes, datasets, coordinateTransformations, omero, name, type, metadata) ==
    [cls |-> "Metadata_v04",
     axes |-> axes,
     datasets |-> datasets,
     coordinateTransformations |-> coordinateTransformations,
     omero |-> omero,
     name |-> name,
     type |-> type,
     metadata |-> metadata]

\* Calling a class allocates a new object.
Alloc(h, obj) == [h EXCEPT !.objs = Append(@, obj)]

NewRef(h) == Len(h.objs) + 1

\* Variant: type and metadata passed to each other's keyword.
to_v04_swapped(h, self) ==
    LET s == h.objs[self]
        metadata == Metadata_v04(s.axes,
                                 s.datasets,
                                 s.coordinateTransformations,
                                 s.omero,
                                 s.name,
                                 s.metadata,
                                 s.type)
    IN  [heap |-> Alloc(h, metadata), out |-> ReturnObject(NewRef(h))]

\* Variant: axes=list(self.axes), a copy of the list.
to_v04_copying(h, self) ==
    LET s == h.objs[self]
        h1 == [h EXCEPT !.lists = Append(@, h.lists[s.axes])]
        metadata == Metadata_v04(Len(h1.lists),
                                 s.datasets,
                                 s.coordinateTransformations,
                                 s.omero,
                                 s.name,
                                 s.type,
                                 s.metadata)
    IN  [heap |-> Alloc(h1, metadata), out |-> ReturnObject(NewRef(h))]

to_v04(h, self) ==
    LET s == h.objs[self]
        metadata == Metadata_v04(s.axes,
                                 s.datasets,
                                 s.coordinateTransformations,
                                 s.omero,
                                 s.name,
                                 s.type,
                                 s.metadata)
    IN  [heap |-> Alloc(h, metadata), out |-> ReturnObject(NewRef(h))]

\* Variant: name not passed on, so the new record takes the default.
from_v04_default_name(h, metadata_v04) ==
    LET m == h.objs[metadata_v04]
        metadata == Metadata(m.axes,
                             m.datasets,
                             m.coordinateTransformations,
                             m.omero,
                             "image",
                             m.type,
                             m.metadata)
    IN  [heap |-> Alloc(h, metadata), out |-> ReturnObject(NewRef(h))]

from_v04(h, metadata_v04) ==
    LET m == h.objs[metadata_v04]
        metadata == Metadata(m.axes,
                             m.datasets,
                             m.coordinateTransformations,
                             m.omero,
                             m.name,
                             m.type,
                             m.metadata)
    IN  [heap |-> Alloc(h, metadata), out |-> ReturnObject(NewRef(h))]

\* Variant: no membership test before the dispatch.
to_version_unchecked(h, self, version) ==
    IF version = "0.5"
    THEN [heap |-> h, out |-> ReturnObject(self)]
    ELSE IF version = "0.4"
    THEN to_v04(h, self)
    ELSE [heap |-> h, out |-> ReturnNone]

\* Variant: the record's own version answered with a copy of the record.
to_version_copying(h, self, version) ==
    IF version \notin Range(SUPPORTED_VERSIONS)
    THEN [heap |-> h,
          out |-> Raise("ValueError", "Unsupported version conversion: 0.5 -> " \o version)]
    ELSE IF version = "0.5"
    THEN [heap |-> Alloc(h, h.objs[self]), out |-> ReturnObject(NewRef(h))]
    ELSE IF version = "0.4"
    THEN to_v04(h, self)
    ELSE [heap |-> h, out |-> ReturnNone]

to_version(h, self, version) ==
    IF version \notin Range(SUPPORTED_VERSIONS)
    THEN [heap |-> h,
          out |-> Raise("ValueError", "Unsupported version conversion: 0.5 -> " \o version)]
    ELSE IF version = "0.5"
    THEN [heap |-> h, out |-> ReturnObject(self)]
    ELSE IF version = "0.4"
    THEN to_v04(h, self)
    ELSE [heap |-> h, out |-> ReturnNone]

\* An argument of from_version: a reference to a Metadata object, or a value
\* of another type (ref = 0).
ObjectArg(ref) == [ref |-> ref, type |-> ""]
OtherArg(type) == [ref |-> 0, type |-> type]

\* type(metadata), as its class name
TypeOf(h, x) == IF x.ref # 0 THEN h.objs[x.ref].cls ELSE x.type

\* Variant: any record object passes, whatever its class.
isinstance_any_record(h, x, cls) == x.ref # 0

isinstance(h, x, cls) == TypeOf(h, x) = cls

from_version(h, metadata) ==
    IF isinstance(h, metadata, "Metadata_v04")
    THEN from_v04(h, metadata.ref)
    ELSE [heap |-> h,
          out |-> Raise("ValueError", "Unsupported metadata type: " \o TypeOf(h, metadata))]

\* Variant: the names in reverse order.
dimension_names_reversed(h, self) ==
    LET axes == h.lists[h.objs[self].axes]
    IN  [i \in 1..Len(axes) |-> axes[Len(axes) + 1 - i].name]

dimension_names(h, self) ==
    LET axes == h.lists[h.objs[self].axes]
    IN  [i \in 1..Len(axes) |-> axes[i].name]

-----------------------------------------------------------------------------
(* The values the reader and the callers supply *)

\* Axis names, dataset paths and transform types are unique within a record.
AxisNames == {"y", "x"}
Axes == {[name |-> n] : n \in AxisNames}
Datasets == {[path |-> "0"], [path |-> "1"]}
Transforms == {[type |-> "scale"], [type |-> "translation"]}

\* name (default "image") and the three optional fields (default None)
NameValues == {"image", "sample"}
OmeroValues == {None, "omero"}
TypeValues == {None, "gaussian"}
MethodValues == {None, "method"}

VersionStrings == {"0.4", "0.5", "0.6", "0.7", "latest"}
OtherTypes == {"NoneType", "dict"}
ListFields == {"axes", "datasets", "coordinateTransformations"}

Classes == {"Metadata", "Metadata_v04"}
Construct(cls, axes, datasets, coordinateTransformations, omero, name, type, metadata) ==
    IF cls = "Metadata"
    THEN Metadata(axes, datasets, coordinateTransformations, omero, name, type, metadata)
    ELSE Metadata_v04(axes, datasets, coordinateTransformations, omero, name, type, metadata)

Refs == DOMAIN heap.objs

NoCall == [op |-> "init", self |-> 0, arg |-> ""]

-----------------------------------------------------------------------------
(* The state after the reader has built one record, of either version: its  *)
(* axes, one dataset, and coordinateTransformations or None.                *)

Init ==
    \E cls \in Classes, axes \in Injective(Axes), withTransforms \in BOOLEAN,
       omero \in OmeroValues, name \in NameValues, type \in TypeValues,
       metadata \in MethodValues :
        /\ heap = [lists |-> <<axes, <<[path |-> "0"]>>>>
                                \o (IF withTransforms THEN <<<<[type |-> "scale"]>>>> ELSE <<>>),
                   objs |-> <<Construct(cls, 1, 2, IF withTransforms THEN 3 ELSE NoList,
                                        omero, name, type, metadata)>>]
        /\ call = NoCall
        /\ result = ReturnNone
        /\ pre = heap

-----------------------------------------------------------------------------
(* Operations *)

\* The state after an operation that leaves heap r.heap and outcome r.out.
Finish(r, op, self, arg) ==
    /\ Len(r.heap.objs) <= MaxObjects
    /\ heap' = r.heap
    /\ call' = [op |-> op, self |-> self, arg |-> arg]
    /\ result' = r.out
    /\ pre' = heap

\* self.to_version(version), on a 0.5 record
ToVersion ==
    \E self \in Refs, version \in VersionStrings :
        /\ heap.objs[self].cls = "Metadata"
        /\ Finish(to_version(heap, self, version), "to_version", self, version)

\* self.to_v04(), on a 0.5 record
ToV04 ==
    \E self \in Refs :
        /\ heap.objs[self].cls = "Metadata"
        /\ Finish(to_v04(heap, self), "to_v04", self, "")

\* Metadata.from_v04(m): m's fields are read, its type is not checked
FromV04 ==
    \E m \in Refs :
        Finish(from_v04(heap, m), "from_v04", m, "")

\* Metadata.from_version(m), with a record of either version or with another value
FromVersion ==
    \/ \E m \in Refs :
        Finish(from_version(heap, ObjectArg(m)), "from_version", m, "")
    \/ \E t \in OtherTypes :
        Finish(from_version(heap, OtherArg(t)), "from_version", 0, t)

\* self.dimension_names
DimensionNames ==
    \E self \in Refs :
        Finish([heap |-> heap, out |-> ReturnValue(dimension_names(heap, self))],
               "dimension_names", self, "")

\* VERSION_ALIASES[version]
Canonicalize ==
    \E version \in VersionStrings :
        Finish([heap |-> heap, out |-> getitem(VERSION_ALIASES, version)],
               "VERSION_ALIASES[]", 0, version)

\* The entries a caller may put into the list held by field f
ElementsOf(f) ==
    IF f = "axes" THEN Axes ELSE IF f = "datasets" THEN Datasets ELSE Transforms

\* In place, through a record: self.<f>.append(x), x not yet in the list
ListAppend ==
    \E self \in Refs, f \in ListFields :
        LET l == heap.objs[self][f] IN
        /\ l # NoList
        /\ \E x \in ElementsOf(f) \ Range(heap.lists[l]) :
            Finish([heap |-> [heap EXCEPT !.lists[l] = Append(@, x)], out |-> ReturnNone],
                   "append", self, f)

Next ==
    \/ ToVersion
    \/ ToV04
    \/ FromV04
    \/ FromVersion
    \/ DimensionNames
    \/ Canonicalize
    \/ ListAppend

Spec == Init /\ [][Next]_vars

-----------------------------------------------------------------------------
(* What the properties below read *)

Fields == {"axes", "datasets", "coordinateTransformations", "omero", "name", "type", "metadata"}

Supported == Range(SUPPORTED_VERSIONS)

\* The value of field f of object o in heap h, as == compares it: a list by
\* its entries, None apart from the empty list.
FieldValue(h, o, f) ==
    IF f \in ListFields
    THEN IF h.objs[o][f] = NoList
         THEN [none |-> TRUE, items |-> <<>>]
         ELSE [none |-> FALSE, items |-> h.lists[h.objs[o][f]]]
    ELSE h.objs[o][f]

\* Object a of heap h1 and object b of heap h2 are equal field for field.
FieldsEqual(h1, a, h2, b) ==
    \A f \in Fields : FieldValue(h1, a, f) = FieldValue(h2, b, f)

\* Object o is the same object, with the same field values, in pre and heap.
Unchanged(o) ==
    /\ heap.objs[o] = pre.objs[o]
    /\ FieldsEqual(heap, o, pre, o)

\* The last operation returned an object that did not exist before it.
ReturnedNew ==
    /\ result.kind = "object"
    /\ result.ref \in Refs \ DOMAIN pre.objs

-----------------------------------------------------------------------------
(* C1 *)

\* C1: to_version(target) with any target of SUPPORTED_VERSIONS returns a
\* record: the receiver, or a record of the target version. It never ends
\* without a record and without an error.
C1_SupportedTargetReturnsRecord ==
    (call.op = "to_version" /\ call.arg \in Supported) =>
        /\ result.kind = "object"
        /\ result.ref \in Refs

-----------------------------------------------------------------------------
(* C2 *)

\* C2: to_version("latest") is not rejected: the alias is resolved through
\* VERSION_ALIASES first, and the call ends as to_version("0.6") ends.
C2_LatestIsCanonicalized ==
    (call.op = "to_version" /\ call.arg = "latest") =>
        /\ result.kind # "raise"
        /\ result = to_version(pre, call.self, VERSION_ALIASES["latest"]).out

-----------------------------------------------------------------------------
(* C3 *)

\* C3: to_version(target) with a target outside SUPPORTED_VERSIONS raises
\* ValueError naming the transition "0.5 -> <target>"; no object is built
\* and nothing changes.
C3_UnsupportedTargetRaises ==
    (call.op = "to_version" /\ call.arg \notin Supported) =>
        /\ result = Raise("ValueError", "Unsupported version conversion: 0.5 -> " \o call.arg)
        /\ heap = pre

C3_Witness ==
    /\ call.op = "to_version"
    /\ call.arg = "0.7"
    /\ result.kind = "raise"
    /\ result.msg = "Unsupported version conversion: 0.5 -> 0.7"

-----------------------------------------------------------------------------
(* C4 *)

\* C4: to_version returns the receiver itself exactly when the target is
\* "0.5"; for "0.4" it returns a new object, not the receiver; in both cases
\* the receiver's seven fields are as before the call.
C4_IdentityOnlyForOwnVersion ==
    call.op = "to_version" =>
        /\ (result.kind = "object" /\ result.ref = call.self) <=> (call.arg = "0.5")
        /\ call.arg = "0.4" => (ReturnedNew /\ result.ref # call.self)
        /\ call.arg \in {"0.4", "0.5"} => Unchanged(call.self)

C4_Witness ==
    /\ call.op = "to_version"
    /\ call.arg = "0.4"
    /\ ReturnedNew
    /\ result.ref # call.self
    /\ \E o \in Refs : o # call.self /\ o # result.ref

-----------------------------------------------------------------------------
(* C5 *)

\* The object returned by the last operation is a record of class cls with
\* the seven fields and no other, each equal to the same-named field the
\* argument had before the call.
CopiedAs(cls) ==
    /\ ReturnedNew
    /\ heap.objs[result.ref].cls = cls
    /\ DOMAIN heap.objs[result.ref] = Fields \cup {"cls"}
    /\ FieldsEqual(heap, result.ref, pre, call.self)

\* C5: r.to_v04() is a 0.4 record whose seven fields equal r's, and
\* from_v04(m) of a 0.4 record m is a 0.5 record whose seven fields equal m's.
C5_FieldMappingIsIdentity ==
    /\ call.op = "to_v04" => CopiedAs("Metadata_v04")
    /\ (call.op = "from_v04" /\ pre.objs[call.self].cls = "Metadata_v04") =>
            CopiedAs("Metadata")

\* from_v04 of a 0.4 record that to_v04 built (the reader built object 1),
\* with no field at its default.
C5_Witness ==
    /\ call.op = "from_v04"
    /\ call.self > 1
    /\ pre.objs[call.self].cls = "Metadata_v04"
    /\ CopiedAs("Metadata")
    /\ heap.objs[result.ref].name = "sample"
    /\ heap.objs[result.ref].omero = "omero"
    /\ heap.objs[result.ref].type = "gaussian"
    /\ heap.objs[result.ref].metadata = "method"
    /\ heap.objs[result.ref].coordinateTransformations # NoList

-----------------------------------------------------------------------------
(* C6 *)

\* from_v04(m).to_version("0.4"), from the current heap
RoundTripFrom04(m) ==
    LET there == from_v04(heap, m)
    IN  to_version(there.heap, there.out.ref, "0.4")

\* from_version(r.to_version("0.4")), from the current heap
RoundTripFrom05(r) ==
    LET there == to_version(heap, r, "0.4")
    IN  from_version(there.heap, ObjectArg(there.out.ref))

\* C6: for every 0.4 record m, from_v04(m).to_version("0.4") is a 0.4 record
\* equal to m field for field; for every 0.5 record r,
\* from_version(r.to_version("0.4")) is a 0.5 record equal to r field for field.
C6_RoundTrip ==
    \A o \in Refs :
        /\ heap.objs[o].cls = "Metadata_v04" =>
            LET back == RoundTripFrom04(o) IN
            /\ back.out.kind = "object"
            /\ back.heap.objs[back.out.ref].cls = "Metadata_v04"
            /\ FieldsEqual(back.heap, back.out.ref, heap, o)
        /\ heap.objs[o].cls = "Metadata" =>
            LET back == RoundTripFrom05(o) IN
            /\ back.out.kind = "object"
            /\ back.heap.objs[back.out.ref].cls = "Metadata"
            /\ FieldsEqual(back.heap, back.out.ref, heap, o)

\* The round trip as the operations ran it: the reader's 0.4 record is object 1,
\* object 2 is the 0.5 record made from it, and to_version("0.4") of object 2
\* has just returned object 3, equal to object 1 field for field.
C6_Witness ==
    /\ Len(heap.objs) = 3
    /\ heap.objs[1].cls = "Metadata_v04"
    /\ heap.objs[2].cls = "Metadata"
    /\ call = [op |-> "to_version", self |-> 2, arg |-> "0.4"]
    /\ result = ReturnObject(3)
    /\ heap.objs[3].cls = "Metadata_v04"
    /\ FieldsEqual(heap, 3, heap, 1)
    /\ heap.objs[1].name = "sample"
    /\ Len(heap.lists[heap.objs[1].axes]) = 2

-----------------------------------------------------------------------------
(* C7 *)

\* C7: from_version of a 0.4 record returns what from_v04 returns for it; of
\* a value of any other type, a 0.5 record included, it raises ValueError
\* naming the type, and builds nothing.
C7_FromVersionOnly04 ==
    call.op = "from_version" =>
        IF call.self # 0 /\ pre.objs[call.self].cls = "Metadata_v04"
        THEN /\ result = from_v04(pre, call.self).out
             /\ heap = from_v04(pre, call.self).heap
             /\ CopiedAs("Metadata")
        ELSE /\ result.kind = "raise"
             /\ result.exc = "ValueError"
             /\ result.msg = "Unsupported metadata type: " \o
                    (IF call.self # 0 THEN pre.objs[call.self].cls ELSE call.arg)
             /\ heap = pre

C7_Witness ==
    /\ call.op = "from_version"
    /\ call.self # 0
    /\ pre.objs[call.self].cls = "Metadata"
    /\ result = Raise("ValueError", "Unsupported metadata type: Metadata")

-----------------------------------------------------------------------------
(* C8 *)

\* C8: VERSION_ALIASES is defined exactly on the supported versions and
\* "latest"; a supported version maps to itself; "latest" maps to the last
\* of SUPPORTED_VERSIONS, "0.6"; every value is a supported version; the
\* lookup of any other string fails.
C8_RegistryConsistent ==
    /\ DOMAIN VERSION_ALIASES = Supported \cup {"latest"}
    /\ \A v \in Supported : VERSION_ALIASES[v] = v
    /\ VERSION_ALIASES["latest"] = SUPPORTED_VERSIONS[Len(SUPPORTED_VERSIONS)]
    /\ VERSION_ALIASES["latest"] = "0.6"
    /\ \A k \in DOMAIN VERSION_ALIASES : VERSION_ALIASES[k] \in Supported
    /\ call.op = "VERSION_ALIASES[]" =>
        IF call.arg \in Supported
        THEN result = ReturnValue(call.arg)
        ELSE IF call.arg = "latest"
        THEN result = ReturnValue("0.6")
        ELSE result.kind = "raise"

C8_Witness ==
    /\ call = [op |-> "VERSION_ALIASES[]", self |-> 0, arg |-> "latest"]
    /\ result = ReturnValue("0.6")

-----------------------------------------------------------------------------
(* C9 *)

\* C9: dimension_names is the tuple of the names of the entries of axes, in
\* order and as axes is when it is read: as long as axes, its i-th element
\* the i-th axis's name, empty when axes is empty.
C9_DimensionNames ==
    call.op = "dimension_names" =>
        LET axes == heap.lists[heap.objs[call.self].axes] IN
        /\ result.kind = "value"
        /\ Len(result.value) = Len(axes)
        /\ \A i \in 1..Len(axes) : result.value[i] = axes[i].name
        /\ axes = <<>> => result.value = <<>>
        /\ heap = pre

\* Read through a converted record (the reader built object 1).
C9_Witness ==
    /\ call.op = "dimension_names"
    /\ call.self > 1
    /\ result = ReturnValue(<<"y", "x">>)

-----------------------------------------------------------------------------
(* C10 *)

\* Records a and b hold the same list objects, hence equal entries.
SameLists(a, b) ==
    /\ \A f \in ListFields : heap.objs[a][f] = heap.objs[b][f]
    /\ \A f \in ListFields : FieldValue(heap, a, f) = FieldValue(heap, b, f)
    /\ dimension_names(heap, a) = dimension_names(heap, b)

\* C10: the converters copy by reference. Right after b = a.to_v04() or
\* b = from_v04(a), a and b hold the same lists; and they still hold equal
\* entries after any appends made through either. (Every object of a run but
\* the reader's was converted, directly or through others, from the reader's,
\* so this is stated of every two objects.)
C10_ConvertedRecordsShareLists ==
    /\ (call.op \in {"to_v04", "from_v04"} /\ result.kind = "object") =>
            SameLists(call.self, result.ref)
    /\ \A a, b \in Refs : SameLists(a, b)

\* An append to axes through a converted record shows through the reader's.
C10_Witness ==
    /\ call = [op |-> "append", self |-> 2, arg |-> "axes"]
    /\ Len(heap.lists[heap.objs[1].axes]) = Len(pre.lists[pre.objs[1].axes]) + 1
    /\ SameLists(1, 2)

====
